---- MODULE Spec2Model ----
(***************************************************************************)
(* CArchive (archive.c): a length-prefixed archiver.                       *)
(*                                                                         *)
(*   program FILE... OUTFILE   packs every FILE into OUTFILE               *)
(*   program INFILE            unpacks INFILE into the working directory  *)
(*                                                                         *)
(* Bytes are integers 0..255, strings are sequences of bytes, a path is a  *)
(* sequence of names, and the filesystem is a function from the paths that *)
(* exist to their nodes (the root <<>> always exists and is a directory).  *)
(* One behaviour of Spec is either a pack run followed by an unpack run   *)
(* of the archive it wrote (in an empty destination directory), or an      *)
(* unpack run of an arbitrary byte sequence (in a directory that may hold  *)
(* entries already).  SpecPack has the pack runs alone, SpecUnpack the     *)
(* unpack runs of arbitrary byte sequences, and SpecRuns both, one run of  *)
(* the program in each behaviour.                                          *)
(***************************************************************************)
EXTENDS Integers, Sequences, FiniteSets, TLC

VARIABLES
    fs,        \* the filesystem: path -> node
    cwd,       \* working directory of the running process
    args,      \* argv[1..argc-2] of the pack run (<<>>: the run only unpacks)
    argind,    \* main's loop index over args
    stack,     \* the activation records of pack, innermost last
    archive,   \* the bytes of OUTFILE / INFILE
    warnings,  \* names reported as skipped on stderr
    pc,        \* "main", "pack", "packed": the pack run; "exit": it called
               \* exit(1); "unpack", "done": the unpack run; "err": it called
               \* err(); "crash": it used a null stream
    pos,       \* read position of unpack's FILE *fp (index of the next byte)
    depth,     \* unpack's depth counter
    plog,      \* history: the frames pack has written: kind, nesting level,
               \* offset in the archive, name passed to pack, bytes copied
    ulog,      \* history: the frames unpack has processed
    stored,    \* history: most bytes one next_block call stored, NUL included
    calls,     \* history: the calls of pack, in the order they were made
    runs       \* for each depth argument main could give pack: the bytes
               \* written to outfp and the progress listing on stdout

vars == <<fs, cwd, args, argind, stack, archive, warnings, pc, pos, depth,
          plog, ulog, stored, calls, runs>>

----------------------------------------------------------------------------
(* Bounds of the model                                                     *)

MaxEntries == 2     \* entries of the tree below the pack directory
MaxDepth == 2       \* nesting of that tree
MaxArgs == 2        \* FILE arguments of a pack run
MaxRawLen == 4      \* length of an arbitrary archive

\* the depth arguments pack is tried with; main gives 1
DepthArgs == {0, 1, 3}

----------------------------------------------------------------------------
(* Bytes                                                                   *)

NAME_MAX == 255
NUL == 0
Colon == 58
Slash == 47
Dot == 46
Minus == 45
Plus == 43
Zero == 48
Nine == 57
Space == 32
Tab == 9
CarriageReturn == 13
UShortMod == 65536

DotName == <<Dot>>
DotDotName == <<Dot, Dot>>

\* the directory a pack run starts in and the one an unpack run starts in
SrcDir == <<115>>
DstDir == <<100>>

\* names of directory entries; one of them holds the ':' byte
Names == { <<97>>, <<97, Colon, 98>> }

\* file contents; the payload may hold any byte
Contents == { <<>>, <<Colon, 120>> }

\* the bytes of arbitrary archives
RawBytes == { Zero, 49, 50, Colon, Slash, 97, Minus }

\* the values an indeterminate char can show
GarbageBytes == { NUL, Slash }

----------------------------------------------------------------------------
(* C strings                                                               *)

Max(a, b) == IF a >= b THEN a ELSE b
Min(a, b) == IF a <= b THEN a ELSE b
Least(S) == CHOOSE x \in S : \A y \in S : x <= y

\* n times the byte b
Repeat(b, n) == [i \in 1..n |-> b]

\* the C string held by a buffer: the bytes before the first NUL
CStr(s) ==
    LET nuls == { i \in 1..Len(s) : s[i] = NUL }
    IN  IF nuls = {} THEN s ELSE SubSeq(s, 1, Least(nuls) - 1)

\* printf("%ld", n) for n >= 0
RECURSIVE Dec(_)
Dec(n) == IF n < 10 THEN <<Zero + n>> ELSE Dec(n \div 10) \o <<Zero + (n % 10)>>

IsDigit(b) == b >= Zero /\ b <= Nine
IsSpace(b) == b = Space \/ (b >= Tab /\ b <= CarriageReturn)

RECURSIVE SkipSpace(_)
SkipSpace(s) == IF s # <<>> /\ IsSpace(Head(s)) THEN SkipSpace(Tail(s)) ELSE s

RECURSIVE Digits(_, _)
Digits(s, acc) ==
    IF s # <<>> /\ IsDigit(Head(s))
    THEN Digits(Tail(s), acc * 10 + (Head(s) - Zero))
    ELSE acc

\* atoi: optional white space, optional sign, then the leading digits (the
\* length fields of the model have fewer than ten digits: the value fits
\* an int)
Atoi(buf) ==
    LET s == SkipSpace(CStr(buf))
    IN  IF s # <<>> /\ Head(s) = Minus THEN 0 - Digits(Tail(s), 0)
        ELSE IF s # <<>> /\ Head(s) = Plus THEN Digits(Tail(s), 0)
        ELSE Digits(s, 0)

----------------------------------------------------------------------------
(* The filesystem                                                          *)

DirNode == [type |-> "dir", data |-> <<>>, ok |-> TRUE]
FileNode(c) == [type |-> "file", data |-> c, ok |-> TRUE]

IsDir(f, p) == p = <<>> \/ (p \in DOMAIN f /\ f[p].type = "dir")
Exists(f, p) == p = <<>> \/ p \in DOMAIN f

Parent(p) == IF p = <<>> THEN <<>> ELSE SubSeq(p, 1, Len(p) - 1)

\* the components of a path string, split at '/'
RECURSIVE Split(_)
Split(s) ==
    LET slashes == { i \in 1..Len(s) : s[i] = Slash }
    IN  IF slashes = {} THEN <<s>>
        ELSE <<SubSeq(s, 1, Least(slashes) - 1)>>
                \o Split(SubSeq(s, Least(slashes) + 1, Len(s)))

\* path resolution from directory p over the components cs; the result is
\* <<TRUE, path>>, or <<FALSE, <<>>>> when a component is missing or is not
\* a directory.  With create, the last component may be missing.
RECURSIVE Walk(_, _, _, _)
Walk(f, p, cs, create) ==
    IF cs = <<>> THEN <<TRUE, p>>
    ELSE IF ~IsDir(f, p) THEN <<FALSE, <<>>>>
    ELSE LET c == Head(cs)
         IN  IF c = <<>> \/ c = DotName THEN Walk(f, p, Tail(cs), create)
             ELSE IF c = DotDotName THEN Walk(f, Parent(p), Tail(cs), create)
             ELSE IF Exists(f, Append(p, c)) \/ (create /\ Len(cs) = 1)
             THEN Walk(f, Append(p, c), Tail(cs), create)
             ELSE <<FALSE, <<>>>>

\* the path a path string names, seen from directory at
Resolve(f, at, s, create) ==
    IF s = <<>> THEN <<FALSE, <<>>>>
    ELSE Walk(f, IF Head(s) = Slash THEN <<>> ELSE at, Split(s), create)

\* chdir(s): the new working directory; unchanged when the call fails
Chdir(f, at, s) ==
    LET r == Resolve(f, at, s, FALSE)
    IN  IF r[1] /\ IsDir(f, r[2]) THEN r[2] ELSE at

\* the st_mode classes stat(s) can leave in st: the class of the node, or,
\* when stat fails, whatever the uninitialised struct holds
StatModes(f, at, s) ==
    LET r == Resolve(f, at, s, FALSE)
    IN  IF ~r[1] THEN {"dir", "reg", "other"}
        ELSE IF r[2] = <<>> \/ f[r[2]].type = "dir" THEN {"dir"}
        ELSE IF f[r[2]].type \in {"file", "link"} THEN {"reg"}
        ELSE {"other"}

\* the names readdir returns for directory p, "." and ".." left out
Children(f, p) ==
    { q[Len(q)] : q \in { x \in DOMAIN f : Len(x) = Len(p) + 1
                                          /\ SubSeq(x, 1, Len(p)) = p } }

----------------------------------------------------------------------------
(* The trees a pack run can meet                                           *)

\* an entry that cannot be opened, a FIFO, and a symbolic link to a regular
\* file (data is what reading through the link yields)
LockedFile == [type |-> "file", data |-> <<Colon, 120>>, ok |-> FALSE]
LockedDir == [type |-> "dir", data |-> <<>>, ok |-> FALSE]
FifoNode == [type |-> "fifo", data |-> <<>>, ok |-> TRUE]
LinkNode == [type |-> "link", data |-> <<120>>, ok |-> TRUE]

Leaves == { FileNode(c) : c \in Contents }
              \cup { LockedFile, LockedDir, FifoNode, LinkNode }

EmptyTree == [p \in {} |-> DirNode]

\* the tree t moved below the directory path at
Under(at, t) ==
    [p \in { at \o q : q \in DOMAIN t } |-> t[SubSeq(p, Len(at) + 1, Len(p))]]

\* the trees of at most n entries, nested at most d deep, whose top level
\* takes its names from names
RECURSIVE Trees(_, _, _)
Trees(names, n, d) ==
    IF names = {} \/ n = 0 \/ d = 0 THEN { EmptyTree }
    ELSE LET nm == CHOOSE x \in names : TRUE
             rest == names \ {nm}
         IN  Trees(rest, n, d)
             \cup { (<<nm>> :> l) @@ t : l \in Leaves, t \in Trees(rest, n - 1, d) }
             \cup UNION { { (<<nm>> :> DirNode) @@ Under(<<nm>>, s) @@ t :
                              t \in Trees(rest, n - 1 - Cardinality(DOMAIN s), d) } :
                          s \in Trees(Names, n - 1, d - 1) }

\* a path written as a path string
RECURSIVE Join(_)
Join(p) ==
    IF Len(p) = 1 THEN p[1] ELSE p[1] \o <<Slash>> \o Join(Tail(p))

\* the FILE arguments tried on a tree: its entries and "."
ArgStrings(t) == { Join(p) : p \in DOMAIN t } \cup { DotName }

ArgLists(t) == UNION { [1..n -> ArgStrings(t)] : n \in 1..MaxArgs }

\* the archives an unpack run is tried on, beside those pack wrote: every
\* short byte sequence, and one file frame whose name fills NAME_MAX bytes
LongArchive == Dec(NAME_MAX) \o <<Colon>> \o Repeat(97, NAME_MAX)

\* a directory frame whose name has two components, a file frame whose
\* name has a directory component, a directory frame followed by the frame
\* of an empty file, and a file frame that declares two bytes and has one:
\* `4:a/1/`, `3:a/11:x`, `2:a/1:b0:` and `1:a2:x`
FrameArchives ==
    { <<52, Colon, 97, Slash, 49, Slash>>,
      <<51, Colon, 97, Slash, 49, 49, Colon, 120>>,
      <<50, Colon, 97, Slash, 49, Colon, 98, 48, Colon>>,
      <<49, Colon, 97, 50, Colon, 120>> }

RawArchives ==
    UNION { [1..n -> RawBytes] : n \in 0..MaxRawLen }
        \cup { LongArchive } \cup FrameArchives

BaseDirs == (<<SrcDir>> :> DirNode) @@ (<<DstDir>> :> DirNode)

\* what the directory an unpack run starts in may hold already: nothing, a
\* regular file a, or a directory a with a regular file in it
DstTrees ==
    { EmptyTree,
      << <<97>> >> :> FileNode(<<120>>),
      (<< <<97>> >> :> DirNode) @@ (<< <<97>>, <<97>> >> :> FileNode(<<120>>)) }

----------------------------------------------------------------------------
(* Initial states: main has been entered                                   *)

InitCommon ==
    /\ argind = 1
    /\ stack = <<>>
    /\ warnings = <<>>
    /\ pc = "main"
    /\ pos = 1
    /\ depth = 1
    /\ plog = <<>>
    /\ ulog = <<>>
    /\ stored = 0
    /\ calls = <<>>
    /\ runs = [d \in DepthArgs |-> [out |-> <<>>, listing |-> <<>>]]

\* program FILE... OUTFILE, started in SrcDir
InitPack ==
    /\ \E t \in Trees(Names, MaxEntries, MaxDepth) :
          /\ fs = BaseDirs @@ Under(<<SrcDir>>, t)
          /\ args \in ArgLists(t)
    /\ cwd = <<SrcDir>>
    /\ archive = <<>>

\* program INFILE, started in the directory DstDir
InitUnpack ==
    /\ \E t \in DstTrees : fs = BaseDirs @@ Under(<<DstDir>>, t)
    /\ args = <<>>
    /\ cwd = <<DstDir>>
    /\ archive \in RawArchives

Init == InitCommon /\ (InitPack \/ InitUnpack)

----------------------------------------------------------------------------
(* pack                                                                    *)

Top == stack[Len(stack)]
Pop == SubSeq(stack, 1, Len(stack) - 1)
Level == Len(stack) - 1

Call(fn, d) == [fn |-> fn, depth |-> d, st |-> "call", todo |-> {}, cwd0 |-> cwd]

\* after a return: back in the caller's loop, or in main's
Return == IF Len(stack) = 1 THEN "main" ELSE "pack"

\* the depth of the current call in the run main starts with pack(.., d)
DepthIn(d) == d + (Top.depth - 1)

\* runs after the line text of the progress listing, behind depth times two
\* blanks (lines 77-79 and 100-102)
Printed(text) ==
    [d \in DepthArgs |->
        [runs[d] EXCEPT !.listing = Append(@, [indent |-> DepthIn(d),
                                               text |-> text])]]

\* r after bytes went to outfp
Written(r, bytes) == [d \in DepthArgs |-> [r[d] EXCEPT !.out = @ \o bytes]]

\* a main that takes the arguments from the last to the first
MainPackBackwards ==
    /\ pc = "main" /\ args # <<>> /\ argind <= Len(args)
    /\ stack' = <<Call(args[Len(args) + 1 - argind], 1)>>
    /\ calls' = Append(calls, [fn |-> args[Len(args) + 1 - argind], level |-> 0,
                               arg |-> argind])
    /\ argind' = argind + 1
    /\ pc' = "pack"
    /\ UNCHANGED <<fs, cwd, args, archive, warnings, pos, depth, plog, ulog,
                   stored, runs>>

\* main, lines 202-204: pack(argv[argind], fp, 1)
MainPack ==
    /\ pc = "main" /\ args # <<>> /\ argind <= Len(args)
    /\ stack' = <<Call(args[argind], 1)>>
    /\ calls' = Append(calls, [fn |-> args[argind], level |-> 0, arg |-> argind])
    /\ argind' = argind + 1
    /\ pc' = "pack"
    /\ UNCHANGED <<fs, cwd, args, archive, warnings, pos, depth, plog, ulog,
                   stored, runs>>

\* main, line 205: every argument is packed, fclose(fp)
MainPacked ==
    /\ pc = "main" /\ args # <<>> /\ argind > Len(args)
    /\ pc' = "packed"
    /\ UNCHANGED <<fs, cwd, args, argind, stack, archive, warnings, pos, depth,
                   plog, ulog, stored, calls, runs>>

\* a directory header whose decimal leaves the '/' out
DirHeaderNameOnly(fn) == Dec(Len(fn)) \o <<Colon>> \o fn \o <<Slash>>

\* the header of a directory frame, line 87
DirHeader(fn) == Dec(Len(fn) + 1) \o <<Colon>> \o fn \o <<Slash>>

\* the header of a file frame, line 111
FileHeader(fn, size) == Dec(Len(fn)) \o <<Colon>> \o fn \o Dec(size) \o <<Colon>>

\* the end-of-directory marker, line 96
Sentinel == <<Zero, Colon>>

\* the bytes the copy loop writes for a file holding data, lines 115-120
Copy(data) == data

\* what opendir(fn) / fopen(fn, "r") opens: <<TRUE, path>> or <<FALSE, <<>>>>
Open(fn) ==
    LET r == Resolve(fs, cwd, fn, FALSE)
    IN  IF r[1] /\ (r[2] = <<>> \/ fs[r[2]].ok) THEN r ELSE <<FALSE, <<>>>>

\* a pack that sends the blanks of the progress listing to outfp as well
PackDirIndented ==
    /\ pc = "pack" /\ Top.st = "call"
    /\ "dir" \in StatModes(fs, cwd, Top.fn)
    /\ Open(Top.fn)[1]
    /\ archive' = archive \o Repeat(Space, 2 * Top.depth) \o DirHeader(Top.fn)
    /\ runs' = [d \in DepthArgs |->
                  [out |-> runs[d].out \o Repeat(Space, 2 * DepthIn(d))
                                       \o DirHeader(Top.fn),
                   listing |-> Printed(Top.fn \o <<Slash>>)[d].listing]]
    /\ plog' = Append(plog, [kind |-> "dir", level |-> Level,
                             at |-> Len(archive) + 1, fn |-> Top.fn, copied |-> 0])
    /\ cwd' = Chdir(fs, cwd, Top.fn)
    /\ stack' = [stack EXCEPT ![Len(stack)].st = "loop",
                              ![Len(stack)].todo = Children(fs, Open(Top.fn)[2])]
    /\ UNCHANGED <<fs, args, argind, warnings, pc, pos, depth, ulog, stored,
                   calls>>

\* S_ISDIR, opendir succeeds: the name is listed, the name frame written and
\* the directory entered (lines 76-90)
PackDir ==
    /\ pc = "pack" /\ Top.st = "call"
    /\ "dir" \in StatModes(fs, cwd, Top.fn)
    /\ Open(Top.fn)[1]
    /\ archive' = archive \o DirHeader(Top.fn)
    /\ runs' = Written(Printed(Top.fn \o <<Slash>>), DirHeader(Top.fn))
    /\ plog' = Append(plog, [kind |-> "dir", level |-> Level,
                             at |-> Len(archive) + 1, fn |-> Top.fn, copied |-> 0])
    /\ cwd' = Chdir(fs, cwd, Top.fn)
    /\ stack' = [stack EXCEPT ![Len(stack)].st = "loop",
                              ![Len(stack)].todo = Children(fs, Open(Top.fn)[2])]
    /\ UNCHANGED <<fs, args, argind, warnings, pc, pos, depth, ulog, stored,
                   calls>>

\* an opendir failure noticed only after the name frame went out
PackDirFailLate ==
    /\ pc = "pack" /\ Top.st = "call"
    /\ "dir" \in StatModes(fs, cwd, Top.fn)
    /\ ~Open(Top.fn)[1]
    /\ archive' = archive \o DirHeader(Top.fn)
    /\ runs' = Written(Printed(Top.fn \o <<Slash>>), DirHeader(Top.fn))
    /\ pc' = "exit"
    /\ UNCHANGED <<fs, cwd, args, argind, stack, warnings, pos, depth, plog, ulog,
                   stored, calls>>

\* S_ISDIR, opendir fails: the name is listed, then exit(1) (lines 76-85)
PackDirFail ==
    /\ pc = "pack" /\ Top.st = "call"
    /\ "dir" \in StatModes(fs, cwd, Top.fn)
    /\ ~Open(Top.fn)[1]
    /\ runs' = Printed(Top.fn \o <<Slash>>)
    /\ pc' = "exit"
    /\ UNCHANGED <<fs, cwd, args, argind, stack, archive, warnings, pos, depth,
                   plog, ulog, stored, calls>>

\* readdir returns an entry, in whatever order: pack(f->d_name, outfp,
\* depth + 1) (lines 91-94)
PackChild ==
    /\ pc = "pack" /\ Top.st = "loop"
    /\ \E c \in Top.todo :
          /\ stack' = Append([stack EXCEPT ![Len(stack)].todo = Top.todo \ {c}],
                             Call(c, Top.depth + 1))
          /\ calls' = Append(calls, [fn |-> c, level |-> Level + 1, arg |-> 0])
    /\ UNCHANGED <<fs, cwd, args, argind, archive, warnings, pc, pos, depth,
                   plog, ulog, stored, runs>>

\* a return from a directory that writes no marker
PackDirEndUnmarked ==
    /\ pc = "pack" /\ Top.st = "loop" /\ Top.todo = {}
    /\ cwd' = Chdir(fs, cwd, DotDotName)
    /\ stack' = Pop
    /\ pc' = Return
    /\ UNCHANGED <<fs, args, argind, archive, warnings, pos, depth, plog, ulog,
                   stored, calls, runs>>

\* readdir returns NULL: the marker is written, the directory left and
\* pack returns (lines 96-98)
PackDirEnd ==
    /\ pc = "pack" /\ Top.st = "loop" /\ Top.todo = {}
    /\ archive' = archive \o Sentinel
    /\ runs' = Written(runs, Sentinel)
    /\ plog' = Append(plog, [kind |-> "end", level |-> Level,
                             at |-> Len(archive) + 1, fn |-> <<>>, copied |-> 0])
    /\ cwd' = Chdir(fs, cwd, DotDotName)
    /\ stack' = Pop
    /\ pc' = Return
    /\ UNCHANGED <<fs, args, argind, warnings, pos, depth, ulog, stored, calls>>

\* S_ISREG, fopen succeeds: the name is listed, then name, size and the
\* bytes of the file are written (lines 99-121)
PackFile ==
    /\ pc = "pack" /\ Top.st = "call"
    /\ "reg" \in StatModes(fs, cwd, Top.fn)
    /\ Open(Top.fn)[1]
    /\ LET node == fs[Open(Top.fn)[2]]
       IN  /\ archive' = archive \o FileHeader(Top.fn, Len(node.data))
                                 \o Copy(node.data)
           /\ runs' = Written(Printed(Top.fn),
                              FileHeader(Top.fn, Len(node.data)) \o Copy(node.data))
           /\ plog' = Append(plog, [kind |-> "file", level |-> Level,
                                    at |-> Len(archive) + 1, fn |-> Top.fn,
                                    copied |-> Len(Copy(node.data))])
    /\ stack' = Pop
    /\ pc' = Return
    /\ UNCHANGED <<fs, cwd, args, argind, warnings, pos, depth, ulog, stored,
                   calls>>

\* S_ISREG, fopen fails: the name is listed, then exit(1) (lines 99-108)
PackFileFail ==
    /\ pc = "pack" /\ Top.st = "call"
    /\ "reg" \in StatModes(fs, cwd, Top.fn)
    /\ ~Open(Top.fn)[1]
    /\ runs' = Printed(Top.fn)
    /\ pc' = "exit"
    /\ UNCHANGED <<fs, cwd, args, argind, stack, archive, warnings, pos, depth,
                   plog, ulog, stored, calls>>

\* neither: a warning, and pack returns (lines 122-124)
PackSkip ==
    /\ pc = "pack" /\ Top.st = "call"
    /\ "other" \in StatModes(fs, cwd, Top.fn)
    /\ warnings' = Append(warnings, Top.fn)
    /\ stack' = Pop
    /\ pc' = Return
    /\ UNCHANGED <<fs, cwd, args, argind, archive, pos, depth, plog, ulog, stored,
                   calls, runs>>

NextPack ==
    \/ MainPack \/ MainPacked
    \/ PackDir \/ PackDirFail \/ PackChild \/ PackDirEnd
    \/ PackFile \/ PackFileFail \/ PackSkip

----------------------------------------------------------------------------
(* next_block and mkpath                                                   *)

\* next_block from read position p.  The loop ends when i, the number of
\* bytes stored, is no longer below max_reads (nothing more is read), at the
\* end of the source, or when the delimiter has been read (and consumed).
\* i is an unsigned short: it never reaches a max_reads above 65535 and goes
\* back to 0 after 65535.  out is the C string left in output, pos the new
\* read position, n the number of bytes stored, the final NUL included.
NextBlock(src, p, delim, max_reads) ==
    LET last == IF max_reads >= UShortMod THEN Len(src)
                ELSE Min(p + Max(max_reads, 0) - 1, Len(src))
        delims == { q \in p..last : src[q] = delim }
        stop == IF delims = {} THEN last + 1 ELSE Least(delims)
        i == (stop - p) % UShortMod
    IN  [out |-> SubSeq(src, stop - i, stop - 1),
         pos |-> IF delims = {} THEN stop ELSE stop + 1,
         n |-> stop - p + 1]

\* mkdir(s): <<TRUE, filesystem with the directory>> or <<FALSE, f>>
Mkdir(f, at, s) ==
    LET r == Resolve(f, at, s, TRUE)
    IN  IF r[1] /\ ~Exists(f, r[2]) THEN <<TRUE, (r[2] :> DirNode) @@ f>>
        ELSE <<FALSE, f>>

\* a mkpath that calls mkdir on every component, present or not
RECURSIVE MkpathExclusive(_, _, _, _)
MkpathExclusive(f, at, pathname, i) ==
    LET slashes == { j \in i..Len(pathname) : pathname[j] = Slash }
    IN  IF slashes = {} THEN <<0, f>>
        ELSE LET p == Least(slashes)
                 m == Mkdir(f, at, SubSeq(pathname, 1, p - 1))
             IN  IF m[1] THEN MkpathExclusive(m[2], at, pathname, p + 1)
                 ELSE <<0 - 1, f>>

\* mkpath from character i on, one '/' at a time: <<0 or -1, the filesystem
\* it leaves>>
RECURSIVE Mkpath(_, _, _, _)
Mkpath(f, at, pathname, i) ==
    LET slashes == { j \in i..Len(pathname) : pathname[j] = Slash }
    IN  IF slashes = {} THEN <<0, f>>
        ELSE LET p == Least(slashes)
                 tmp == SubSeq(pathname, 1, p - 1)
                 st == Resolve(f, at, tmp, FALSE)
             IN  IF ~st[1]
                 THEN LET m == Mkdir(f, at, tmp)
                      IN  IF m[1] THEN Mkpath(m[2], at, pathname, p + 1)
                          ELSE <<0 - 1, f>>
                 ELSE IF ~IsDir(f, st[2]) THEN <<0 - 1, f>>
                 ELSE Mkpath(f, at, pathname, p + 1)

\* fopen(s, "w"): <<TRUE, path>> of the file created or truncated, or
\* <<FALSE, <<>>>> (NULL)
Fopen(f, at, s) ==
    LET r == Resolve(f, at, s, TRUE)
    IN  IF /\ r[1] /\ r[2] # <<>>
           /\ (Exists(f, r[2]) => f[r[2]].type \in {"file", "link"} /\ f[r[2]].ok)
        THEN r ELSE <<FALSE, <<>>>>

\* the file at path p holding data
WriteFile(f, p, data) ==
    IF p \in DOMAIN f THEN [f EXCEPT ![p].data = data]
    ELSE (p :> FileNode(data)) @@ f

----------------------------------------------------------------------------
(* unpack                                                                  *)

\* lines 142-144: the length field and the name of the frame at position p
Header(src, p) ==
    LET b1 == NextBlock(src, p, Colon, NAME_MAX)
        n == Atoi(b1.out)
        b2 == NextBlock(src, b1.pos, Colon, n)
    IN  [fn_length |-> n, fn |-> CStr(b2.out), npos |-> b1.pos, pos |-> b2.pos,
         stored |-> Max(b1.n, b2.n)]

Hdr == Header(archive, pos)

\* what fn[strlen(fn)-1] == '/' can yield; with an empty fn the byte before
\* the array is read
EndsInSlash(fn) ==
    IF fn = <<>> THEN { b = Slash : b \in GarbageBytes }
    ELSE { fn[Len(fn)] = Slash }

\* a peek that takes the last byte for the end of the source
PeekEarly(p) == IF p >= Len(archive) THEN "done" ELSE "unpack"

\* lines 176-181: stop when no byte is left
Peek(p) == IF p > Len(archive) THEN "done" ELSE "unpack"

\* the log with one more frame: its kind, whether it was carried out, the
\* declared name length, the name, where the name and the rest of the frame
\* start, the working directory before and after, the depth after, and for
\* a file the declared size and the bytes written
Logged(kind, ok, h, at, d, size, data) ==
    Append(ulog, [kind |-> kind, ok |-> ok, fn_length |-> h.fn_length,
                  fn |-> h.fn, npos |-> h.npos, pos |-> h.pos, before |-> cwd,
                  after |-> at, depth |-> d, size |-> size, data |-> data])

\* main, lines 207-212: program INFILE run in DstDir, on its own or after the
\* pack run has written the archive: unpack(fp, 1)
MainUnpack ==
    /\ \/ pc = "main" /\ args = <<>>
       \/ pc = "packed"
    /\ pc' = "unpack"
    /\ cwd' = <<DstDir>>
    /\ pos' = 1
    /\ depth' = 1
    /\ UNCHANGED <<fs, args, argind, stack, archive, warnings, plog, ulog, stored,
                   calls, runs>>

\* fn_length == 0: end of directory (lines 146-148)
UnpackEnd ==
    /\ pc = "unpack"
    /\ Hdr.fn_length = 0
    /\ cwd' = Chdir(fs, cwd, DotDotName)
    /\ depth' = depth - 1
    /\ pos' = Hdr.pos
    /\ stored' = Max(stored, Hdr.stored)
    /\ ulog' = Logged("end", TRUE, Hdr, cwd', depth', 0, <<>>)
    /\ pc' = Peek(pos')
    /\ UNCHANGED <<fs, args, argind, stack, archive, warnings, plog,
                   calls, runs>>

\* the name ends in '/': the directory is made and entered (lines 149-156)
UnpackDir ==
    /\ pc = "unpack"
    /\ Hdr.fn_length # 0
    /\ TRUE \in EndsInSlash(Hdr.fn)
    /\ LET m == Mkpath(fs, cwd, Hdr.fn, 1)
       IN  /\ m[1] = 0
           /\ fs' = m[2]
           /\ cwd' = Chdir(m[2], cwd, Hdr.fn)
    /\ depth' = depth + 1
    /\ pos' = Hdr.pos
    /\ stored' = Max(stored, Hdr.stored)
    /\ ulog' = Logged("dir", TRUE, Hdr, cwd', depth', 0, <<>>)
    /\ pc' = Peek(pos')
    /\ UNCHANGED <<args, argind, stack, archive, warnings, plog,
                   calls, runs>>

\* an unpack that does not test what mkpath returned
UnpackDirFailIgnored ==
    /\ pc = "unpack"
    /\ Hdr.fn_length # 0
    /\ TRUE \in EndsInSlash(Hdr.fn)
    /\ LET m == Mkpath(fs, cwd, Hdr.fn, 1)
       IN  /\ m[1] # 0
           /\ fs' = m[2]
           /\ cwd' = Chdir(m[2], cwd, Hdr.fn)
    /\ depth' = depth + 1
    /\ pos' = Hdr.pos
    /\ stored' = Max(stored, Hdr.stored)
    /\ ulog' = Logged("dir", FALSE, Hdr, cwd', depth', 0, <<>>)
    /\ pc' = Peek(pos')
    /\ UNCHANGED <<args, argind, stack, archive, warnings, plog, calls, runs>>

\* mkpath fails: err() ends the run (lines 150-151)
UnpackDirFail ==
    /\ pc = "unpack"
    /\ Hdr.fn_length # 0
    /\ TRUE \in EndsInSlash(Hdr.fn)
    /\ LET m == Mkpath(fs, cwd, Hdr.fn, 1)
       IN  /\ m[1] # 0
           /\ fs' = m[2]
    /\ pos' = Hdr.pos
    /\ stored' = Max(stored, Hdr.stored)
    /\ ulog' = Logged("dir", FALSE, Hdr, cwd, depth, 0, <<>>)
    /\ pc' = "err"
    /\ UNCHANGED <<cwd, args, argind, stack, archive, warnings, depth, plog,
                   calls, runs>>

\* lines 163-164: the length field of the file
FileLength(h) == NextBlock(archive, h.pos, Colon, NAME_MAX)

\* lines 169-172: file_length times, a byte is read into buffer and buffer is
\* written; once the source is exhausted buffer keeps the last byte read, or
\* its indeterminate first value g
Payload(p, file_length, g) ==
    LET got == SubSeq(archive, p, Min(p + file_length - 1, Len(archive)))
    IN  got \o Repeat(IF got = <<>> THEN g ELSE got[Len(got)],
                      file_length - Len(got))

\* a file name, fopen succeeds: the file is written (lines 157-174)
UnpackFile ==
    /\ pc = "unpack"
    /\ Hdr.fn_length # 0
    /\ FALSE \in EndsInSlash(Hdr.fn)
    /\ Fopen(fs, cwd, Hdr.fn)[1]
    /\ LET b == FileLength(Hdr)
           file_length == Atoi(b.out)
       IN  \E g \in GarbageBytes :
              /\ fs' = WriteFile(fs, Fopen(fs, cwd, Hdr.fn)[2],
                                 Payload(b.pos, file_length, g))
              /\ pos' = Min(b.pos + Max(file_length, 0), Len(archive) + 1)
              /\ stored' = Max(stored, Max(Hdr.stored, b.n))
              /\ ulog' = Logged("file", TRUE, Hdr, cwd, depth, file_length,
                                Payload(b.pos, file_length, g))
    /\ pc' = Peek(pos')
    /\ UNCHANGED <<cwd, args, argind, stack, archive, warnings, depth, plog,
                   calls, runs>>

\* a file name, fopen returns NULL: fwrite or fclose on the null stream
\* (lines 167-173)
UnpackFileNull ==
    /\ pc = "unpack"
    /\ Hdr.fn_length # 0
    /\ FALSE \in EndsInSlash(Hdr.fn)
    /\ ~Fopen(fs, cwd, Hdr.fn)[1]
    /\ pos' = FileLength(Hdr).pos
    /\ stored' = Max(stored, Max(Hdr.stored, FileLength(Hdr).n))
    /\ ulog' = Logged("file", FALSE, Hdr, cwd, depth,
                       Atoi(FileLength(Hdr).out), <<>>)
    /\ pc' = "crash"
    /\ UNCHANGED <<fs, cwd, args, argind, stack, archive, warnings, depth, plog,
                   calls, runs>>

NextUnpack ==
    \/ MainUnpack
    \/ UnpackEnd \/ UnpackDir \/ UnpackDirFail \/ UnpackFile \/ UnpackFileNull

Next == NextPack \/ NextUnpack

\* a pack run followed by the unpack run of its archive, or an unpack run
\* of an arbitrary archive
Spec == Init /\ [][Next]_vars

\* the pack runs alone
InitPackRun == InitCommon /\ InitPack

SpecPack == InitPackRun /\ [][NextPack]_vars

\* the unpack runs of arbitrary archives alone
InitUnpackRun == InitCommon /\ InitUnpack

SpecUnpack == InitUnpackRun /\ [][NextUnpack]_vars

\* one run of the program: a pack run, or the unpack run of an arbitrary
\* archive
NextRun == NextPack \/ (args = <<>> /\ NextUnpack)

SpecRuns == Init /\ [][NextRun]_vars

----------------------------------------------------------------------------
(* Vocabulary of the properties                                            *)

UnpackRun == pc \in {"unpack", "done", "err", "crash"}

\* the archive being unpacked was written by a pack run that completed
Packed == args # <<>> /\ UnpackRun

\* the entries below directory p, by their path from p
Below(f, p) ==
    LET under == { x \in DOMAIN f : Len(x) > Len(p) /\ SubSeq(x, 1, Len(p)) = p }
    IN  [q \in { SubSeq(x, Len(p) + 1, Len(x)) : x \in under } |-> f[p \o q]]

\* the entry named n of a tree, with what lies below it
Pick(t, n) == [q \in { x \in DOMAIN t : x[1] = n } |-> t[q]]

\* only regular files and directories, all of them readable
Plain(t) == \A q \in DOMAIN t : t[q].type \in {"file", "dir"} /\ t[q].ok

Count(log, kind, k) == Cardinality({ i \in 1..k : log[i].kind = kind })

\* position of the first ':' at or after q in the archive (0: none)
ColonFrom(q) ==
    LET cs == { x \in q..Len(archive) : archive[x] = Colon }
    IN  IF cs = {} THEN 0 ELSE Least(cs)

\* the bytes d are a decimal number of value v
IsDecimal(d, v) ==
    /\ d # <<>>
    /\ \A i \in 1..Len(d) : IsDigit(d[i])
    /\ Digits(d, 0) = v

\* the first archive offset after frame i of the pack log
FrameEnd(i) == IF i < Len(plog) THEN plog[i + 1].at ELSE Len(archive) + 1

----------------------------------------------------------------------------
(* C2  Sentinel balance in the encoder.  When a pack run has ended, no     *)
(* prefix of the frames it wrote holds more end-of-directory markers than  *)
(* directory frames and every marker is the two bytes "0:"; when it ended  *)
(* by returning (not by exit), each directory frame is followed, after     *)
(* frames of deeper nesting only, by exactly one marker of its own nesting *)
(* level, so that markers and directory frames are equal in number.        *)

ClosedBy(i, j) ==
    /\ plog[j].kind = "end"
    /\ plog[j].level = plog[i].level
    /\ \A k \in (i + 1)..(j - 1) : plog[k].level > plog[i].level

SentinelBalance ==
    /\ pc \in {"packed", "exit"} =>
          /\ \A k \in 1..Len(plog) :
                Count(plog, "end", k) <= Count(plog, "dir", k)
          /\ \A j \in 1..Len(plog) :
                plog[j].kind = "end" =>
                   /\ SubSeq(archive, plog[j].at, plog[j].at + 1) = <<Zero, Colon>>
                   /\ FrameEnd(j) = plog[j].at + 2
    /\ pc = "packed" =>
          /\ \A i \in 1..Len(plog) :
                plog[i].kind = "dir" =>
                   Cardinality({ j \in (i + 1)..Len(plog) : ClosedBy(i, j) }) = 1
          /\ Count(plog, "end", Len(plog)) = Count(plog, "dir", Len(plog))

\* a completed pack run that wrote a directory frame inside another one
SentinelBalanceWitness ==
    /\ pc = "packed"
    /\ \E i \in 1..Len(plog) : plog[i].kind = "dir" /\ plog[i].level = 1
    /\ Count(plog, "end", Len(plog)) >= 2

----------------------------------------------------------------------------
(* C3  Length-field fidelity.  When a pack run has ended, every frame it   *)
(* wrote starts with a decimal followed by ':' and the name: for a file    *)
(* the decimal is the length of the name; for a directory it is the length *)
(* of the name plus 1 and the name is followed by '/'.  A file's name is   *)
(* followed by a decimal and ':' and the decimal is the number of content  *)
(* bytes copied, which are all that is left of the frame.                  *)

NameField(e) ==
    LET c == ColonFrom(e.at)
        n == Len(e.fn)
    IN  /\ c > 0
        /\ IsDecimal(SubSeq(archive, e.at, c - 1),
                     IF e.kind = "dir" THEN n + 1 ELSE n)
        /\ SubSeq(archive, c + 1, c + n) = e.fn
        /\ e.kind = "dir" => c + n + 1 <= Len(archive) /\ archive[c + n + 1] = Slash

SizeField(i) ==
    LET e == plog[i]
        q == ColonFrom(e.at) + Len(e.fn) + 1
        c == ColonFrom(q)
    IN  /\ c > 0
        /\ IsDecimal(SubSeq(archive, q, c - 1), e.copied)
        /\ FrameEnd(i) = c + 1 + e.copied

LengthFidelity ==
    pc \in {"packed", "exit"} =>
    \A i \in 1..Len(plog) :
       /\ plog[i].kind \in {"dir", "file"} => NameField(plog[i])
       /\ plog[i].kind = "dir" =>
             FrameEnd(i) = ColonFrom(plog[i].at) + Len(plog[i].fn) + 2
       /\ plog[i].kind = "file" => SizeField(i)

\* a completed pack run that wrote a directory frame, a file frame with
\* content and a file frame whose name holds ':'
LengthFidelityWitness ==
    /\ pc = "packed"
    /\ \E i \in 1..Len(plog) : plog[i].kind = "dir"
    /\ \E i \in 1..Len(plog) : plog[i].kind = "file" /\ plog[i].copied > 0
    /\ \E i \in 1..Len(plog) :
          plog[i].kind = "file" /\ \E k \in 1..Len(plog[i].fn) : plog[i].fn[k] = Colon

----------------------------------------------------------------------------
(* C1  Round trip.  When pack is given one entry T of its directory, T     *)
(* holding only regular files and directories, the unpack run of the       *)
(* archive ends normally and leaves in its directory exactly T: the same   *)
(* paths, the same kinds, the same contents.                               *)

RoundTrip ==
    (/\ Packed /\ pc # "unpack"
     /\ Len(args) = 1 /\ args[1] \in Names
     /\ Plain(Pick(Below(fs, <<SrcDir>>), args[1])))
    => /\ pc = "done"
       /\ Below(fs, <<DstDir>>) = Pick(Below(fs, <<SrcDir>>), args[1])

----------------------------------------------------------------------------
(* C4  Skip semantics.  When the entry pack is called on is neither a      *)
(* directory nor a regular file (here a FIFO or a symbolic link), the call *)
(* writes nothing to the archive, reports the name and returns to go on    *)
(* with the siblings.                                                      *)

\* the node pack is called on, when the name leads to one
Met == Resolve(fs, cwd, Top.fn, FALSE)

SkipSemantics ==
    [][(/\ pc = "pack" /\ Top.st = "call"
        /\ Met[1] /\ Met[2] # <<>>
        /\ fs[Met[2]].type \notin {"dir", "file"})
       => /\ archive' = archive
          /\ warnings' = Append(warnings, Top.fn)
          /\ stack' = Pop]_vars

----------------------------------------------------------------------------
(* C5  Encoder working directory.  When a call of pack returns, the        *)
(* working directory is the one the call was made in.                      *)

PackRestoresCwd ==
    [][(pc = "pack" /\ pc' \in {"pack", "main"} /\ Len(stack') = Len(stack) - 1)
       => cwd' = Top.cwd0]_vars

----------------------------------------------------------------------------
(* C6  Decoder working directory.  Unpacking an archive written by a       *)
(* completed pack run, the end-of-directory marker that matches a          *)
(* directory frame leaves the working directory where it was before that   *)
(* directory frame, and at the end of the archive the working directory is *)
(* the one unpack started in.                                              *)

\* frame j of the unpack log is the marker matching directory frame i
Matches(i, j) ==
    /\ i < j
    /\ ulog[i].kind = "dir" /\ ulog[i].ok /\ ulog[j].kind = "end"
    /\ Count(ulog, "dir", j - 1) - Count(ulog, "dir", i)
          = Count(ulog, "end", j - 1) - Count(ulog, "end", i)
    /\ \A k \in (i + 1)..(j - 1) :
          Count(ulog, "dir", k) - Count(ulog, "dir", i)
             >= Count(ulog, "end", k) - Count(ulog, "end", i)

UnpackRestoresCwd ==
    Packed =>
       /\ \A i, j \in 1..Len(ulog) : Matches(i, j) => ulog[j].after = ulog[i].before
       /\ pc = "done" => cwd = <<DstDir>>

----------------------------------------------------------------------------
(* C7  No depth underflow.  Whatever the bytes of the archive, the depth   *)
(* counter of unpack is never below the value it was called with and the   *)
(* working directory is never above the directory unpack started in.       *)

NoUnderflow ==
    UnpackRun =>
       /\ depth >= 1
       /\ Len(cwd) >= 1 /\ cwd[1] = DstDir

----------------------------------------------------------------------------
(* C8  Buffer bound.  No call of next_block stores more than NAME_MAX      *)
(* bytes, the terminating NUL included, into fn or buff.                   *)

BufferBound == stored <= NAME_MAX

----------------------------------------------------------------------------
(* C9  Declared length only.  For every frame whose declared name length n *)
(* is positive and is followed by at least n bytes, the name unpack uses   *)
(* is exactly those n bytes and the next read starts right after them.     *)

DeclaredLengthOnly ==
    \A i \in 1..Len(ulog) :
       LET e == ulog[i]
       IN  (e.fn_length > 0 /\ e.npos + e.fn_length - 1 <= Len(archive))
           => /\ e.fn = SubSeq(archive, e.npos, e.npos + e.fn_length - 1)
              /\ e.pos = e.npos + e.fn_length

----------------------------------------------------------------------------
(* C10  Decoder depth returns to start.  Unpacking an archive written by a *)
(* completed pack run, the depth counter is raised once for each directory *)
(* frame pack wrote and lowered once for each marker pack wrote, and at    *)
(* the end of the archive it has the value unpack was called with.         *)

DepthReturns ==
    (Packed /\ pc = "done") =>
       /\ Count(ulog, "dir", Len(ulog)) = Count(plog, "dir", Len(plog))
       /\ Count(ulog, "end", Len(ulog)) = Count(plog, "end", Len(plog))
       /\ depth = 1

----------------------------------------------------------------------------
(* C11  Fatal abort of the encoder.  When pack is called on a directory or *)
(* a regular file that cannot be opened, the step it takes ends the run    *)
(* with exit(1): nothing is added to the archive (no name frame, no        *)
(* marker), no entry is called after it, and no step follows the exit.     *)

\* pack is called on a directory or regular file that cannot be opened
Unopenable ==
    /\ pc = "pack" /\ Top.st = "call"
    /\ Met[1] /\ Met[2] # <<>>
    /\ fs[Met[2]].type \in {"dir", "file"} /\ ~fs[Met[2]].ok

EncoderAbort ==
    [][/\ Unopenable => /\ pc' = "exit"
                        /\ archive' = archive /\ plog' = plog
                        /\ calls' = calls /\ stack' = stack
       /\ pc # "exit"]_vars

\* a run that ended on an entry inside a directory it had begun to pack
EncoderAbortWitness ==
    /\ pc = "exit"
    /\ Level >= 1
    /\ Met[1] /\ Met[2] # <<>> /\ ~fs[Met[2]].ok
    /\ plog # <<>>

----------------------------------------------------------------------------
(* C12  Idempotent directory creation.  When the frame unpack reads names  *)
(* a directory by a relative path of which the first component, or more,   *)
(* or all, exist as directories below the working directory, and no        *)
(* component exists as something else, the step does not fail: every path  *)
(* that existed is left as it was, nothing is created when the whole path  *)
(* existed, and unpack goes on inside the directory with depth raised by   *)
(* one.                                                                    *)

\* the frame at the read position has a name that ends in '/'
DirFrame ==
    /\ pc = "unpack"
    /\ Hdr.fn_length # 0
    /\ Hdr.fn # <<>> /\ Hdr.fn[Len(Hdr.fn)] = Slash

\* the path strings mkpath tests for the name fn: what precedes each '/'
Prefixes(fn) ==
    { SubSeq(fn, 1, k - 1) : k \in { i \in 1..Len(fn) : fn[i] = Slash } }

\* from the working directory, s names a directory / something else
NamesDir(s) ==
    LET r == Resolve(fs, cwd, s, FALSE) IN r[1] /\ IsDir(fs, r[2])

NamesOther(s) ==
    LET r == Resolve(fs, cwd, s, FALSE) IN r[1] /\ ~IsDir(fs, r[2])

PartlyThere ==
    /\ DirFrame
    /\ Hdr.fn[1] # Slash
    /\ \E s \in Prefixes(Hdr.fn) : NamesDir(s)
    /\ \A s \in Prefixes(Hdr.fn) : ~NamesOther(s)

IdempotentMkdir ==
    [][PartlyThere =>
          /\ pc' \in {"unpack", "done"}
          /\ \A p \in DOMAIN fs : p \in DOMAIN fs' /\ fs'[p] = fs[p]
          /\ (\A s \in Prefixes(Hdr.fn) : NamesDir(s)) => fs' = fs
          /\ cwd' = Resolve(fs', cwd, Hdr.fn, FALSE)[2]
          /\ IsDir(fs', cwd')
          /\ depth' = depth + 1]_vars

\* the frame `4:a/1/` met the directory a, with its file, that was there
\* before the run: unpack is inside a/1
IdempotentMkdirWitness ==
    /\ UnpackRun
    /\ Len(ulog) = 1
    /\ ulog[1].kind = "dir" /\ ulog[1].ok
    /\ ulog[1].fn = <<97, Slash, 49, Slash>>
    /\ ulog[1].before = <<DstDir>>
    /\ cwd = <<DstDir, <<97>>, <<49>>>>
    /\ <<DstDir, <<97>>, <<97>>>> \in DOMAIN fs
    /\ fs[<<DstDir, <<97>>, <<97>>>>] = FileNode(<<120>>)

----------------------------------------------------------------------------
(* C13  Fatal directory-creation failure.  When the frame unpack reads     *)
(* names a directory and a component of the name exists as something other *)
(* than a directory, or cannot be created (the name starts with '/': the   *)
(* first path mkpath tests is the empty one), mkpath returns -1 and the    *)
(* step ends the run with err(): the working directory and the depth       *)
(* counter are as before, and no step follows.                             *)

Blocked ==
    /\ DirFrame
    /\ \/ Hdr.fn[1] = Slash
       \/ \E s \in Prefixes(Hdr.fn) : NamesOther(s)

MkdirFatal ==
    [][/\ Blocked => /\ Mkpath(fs, cwd, Hdr.fn, 1)[1] = 0 - 1
                     /\ pc' = "err"
                     /\ cwd' = cwd
                     /\ depth' = depth
                     /\ Len(ulog') = Len(ulog) + 1
                     /\ ~ulog'[Len(ulog')].ok
       /\ pc # "err"]_vars

\* the run ended on a directory frame whose first component is a regular
\* file, where it started and at the depth it started with
MkdirFatalWitness ==
    /\ pc = "err"
    /\ Len(ulog) = 1
    /\ ulog[1].kind = "dir" /\ ~ulog[1].ok
    /\ <<DstDir, <<97>>>> \in DOMAIN fs /\ fs[<<DstDir, <<97>>>>].type = "file"
    /\ ulog[1].fn[1] = 97
    /\ cwd = <<DstDir>> /\ depth = 1

----------------------------------------------------------------------------
(* C14  Traversal order.  When a pack run has ended, the calls main made   *)
(* are the FILE arguments in command-line order; the name frames in the    *)
(* archive, by offset, are in the order of the calls that wrote them (main *)
(* calls in argument order, a directory's calls in the order readdir gave  *)
(* the entries); and every frame below the top level comes after the frame *)
(* of its directory, with frames of that directory's entries only in       *)
(* between.  Every step of unpack handles the frame at the read position,  *)
(* which lies after every frame handled before, and creates or changes on  *)
(* disk only what that frame names.                                        *)

\* the frames of log that carry a name, in order
Named(log) == SelectSeq(log, LAMBDA e : e.kind # "end")

TopLevel(log) == SelectSeq(log, LAMBDA e : e.level = 0)

\* frames is cs with some calls left out
RECURSIVE InOrder(_, _)
InOrder(frames, cs) ==
    IF frames = <<>> THEN TRUE
    ELSE IF cs = <<>> THEN FALSE
    ELSE IF Head(frames).fn = Head(cs).fn /\ Head(frames).level = Head(cs).level
    THEN InOrder(Tail(frames), Tail(cs))
    ELSE InOrder(frames, Tail(cs))

PackOrder ==
    (args # <<>> /\ pc \notin {"main", "pack"}) =>
       /\ \A k \in 1..Len(TopLevel(calls)) :
             TopLevel(calls)[k].arg = k /\ TopLevel(calls)[k].fn = args[k]
       /\ InOrder(Named(plog), calls)
       /\ \A i \in 1..(Len(plog) - 1) : plog[i].at < plog[i + 1].at
       /\ \A j \in 1..Len(plog) :
             (plog[j].kind # "end" /\ plog[j].level > 0) =>
                \E i \in 1..(j - 1) :
                   /\ plog[i].kind = "dir"
                   /\ plog[i].level = plog[j].level - 1
                   /\ \A k \in (i + 1)..(j - 1) : plog[k].level >= plog[j].level

\* the paths the frame e can create: for a directory what each prefix of
\* its name leads to, for a file what its name leads to
Targets(e) ==
    IF e.kind = "dir"
    THEN { Resolve(fs', cwd, s, FALSE)[2] : s \in Prefixes(e.fn) }
    ELSE IF e.kind = "file" THEN { Resolve(fs, cwd, e.fn, TRUE)[2] }
    ELSE {}

UnpackOrder ==
    pc = "unpack" =>
       LET e == ulog'[Len(ulog')]
       IN  /\ Len(ulog') = Len(ulog) + 1
           /\ SubSeq(ulog', 1, Len(ulog)) = ulog
           /\ e.npos >= pos /\ e.pos >= e.npos /\ pos' >= e.pos
           /\ ulog # <<>> => e.npos > ulog[Len(ulog)].npos
           /\ \A p \in DOMAIN fs' \ DOMAIN fs : p \in Targets(e)
           /\ \A p \in DOMAIN fs : fs'[p] # fs[p] => p \in Targets(e) /\ e.kind = "file"

TraversalOrder == []PackOrder /\ [][UnpackOrder]_vars

\* a pack run of two FILE arguments has ended, and it packed a directory
\* whose entries a:b and a were read, and written, in that order
TraversalOrderWitness ==
    /\ pc = "packed"
    /\ Len(args) = 2 /\ Len(TopLevel(calls)) = 2
    /\ \E i \in 1..(Len(plog) - 2) :
          /\ plog[i].kind = "dir"
          /\ plog[i + 1].kind = "file" /\ plog[i + 1].fn = <<97, Colon, 98>>
          /\ plog[i + 2].kind = "file" /\ plog[i + 2].fn = <<97>>

----------------------------------------------------------------------------
(* C15  Decoder termination.  Whatever the bytes of the archive, the       *)
(* unpack loop runs at most once for each byte, and once more on the empty *)
(* archive: every iteration that starts with an unread byte moves the read *)
(* position forward, the position never passes the end, the loop is left   *)
(* exactly when the position after the frame is past the last byte, and    *)
(* a run that has ended takes no further step.  (The run can also end      *)
(* inside an iteration, by err() or by the use of a null stream.)          *)

UnpackProgress ==
    pc = "unpack" =>
       /\ pos <= Len(archive) => pos' > pos
       /\ pos' >= pos /\ pos' <= Len(archive) + 1
       /\ pc' = "done" => pos' > Len(archive)
       /\ pc' = "unpack" => pos' <= Len(archive)
       /\ Len(ulog') = Len(ulog) + 1

Bounded ==
    /\ Len(ulog) <= Max(Len(archive), 1)
    /\ pc = "unpack" => Len(ulog) < Max(Len(archive), 1)
    /\ pos <= Len(archive) + 1

DecoderTerminates ==
    /\ []Bounded
    /\ [][UnpackProgress /\ pc \notin {"done", "err", "crash"}]_vars

\* the loop was left after more than one iteration
DecoderTerminatesWitness ==
    /\ pc = "done"
    /\ Len(ulog) >= 2
    /\ pos = Len(archive) + 1

----------------------------------------------------------------------------
(* C16  Depth does not influence the archive.  At every point of a pack    *)
(* run, the runs that main would start with any two depth arguments on the *)
(* same tree and the same enumeration order have written the same bytes to *)
(* outfp, the bytes of the archive; their progress listings have the same  *)
(* lines in the same order, and each line's indentation differs by the     *)
(* difference of the two depth arguments.                                  *)

SameLines(l, m, shift) ==
    /\ Len(l) = Len(m)
    /\ \A i \in 1..Len(l) :
          /\ l[i].text = m[i].text
          /\ l[i].indent = m[i].indent + shift

DepthBlind ==
    \A d \in DepthArgs :
       /\ runs[d].out = archive
       /\ \A e \in DepthArgs :
             /\ runs[d].out = runs[e].out
             /\ SameLines(runs[d].listing, runs[e].listing, d - e)

\* a pack run has ended that wrote a directory frame and a frame below it:
\* the listing has lines at two depths, which start at 0, 1 or 3 with the
\* depth argument
DepthBlindWitness ==
    /\ pc = "packed"
    /\ \E i \in 1..(Len(plog) - 1) :
          /\ plog[i].kind = "dir" /\ plog[i].level = 0
          /\ plog[i + 1].kind = "file" /\ plog[i + 1].level = 1
    /\ Len(archive) > 0
    /\ \A d \in DepthArgs :
          /\ runs[d].listing[1].indent = d
          /\ \E i \in 1..Len(runs[d].listing) : runs[d].listing[i].indent = d + 1

----------------------------------------------------------------------------
(* C17  Verbatim file payload.  For every file frame unpack carried out,   *)
(* with declared content length n, the bytes written to the file are the   *)
(* bytes of the source that follow the length field, in order: the next n  *)
(* of them, or all that are left when the source ends before n bytes were  *)
(* read; nothing else is written.                                          *)

\* where the content of the file frame e starts
PayloadAt(e) == NextBlock(archive, e.pos, Colon, NAME_MAX).pos

VerbatimPayload ==
    \A i \in 1..Len(ulog) :
       LET e == ulog[i]
       IN  (e.kind = "file" /\ e.ok) =>
              e.data = SubSeq(archive, PayloadAt(e),
                              Min(PayloadAt(e) + e.size - 1, Len(archive)))

----------------------------------------------------------------------------
(* C18  File-creation failure is fatal.  When fopen cannot create the file *)
(* a file frame names, the run ends there with a diagnostic, as it does    *)
(* when mkpath fails, and the null stream is neither written to nor        *)
(* closed.                                                                 *)

CreateFailureReported ==
    \A i \in 1..Len(ulog) :
       (ulog[i].kind = "file" /\ ~ulog[i].ok) => (pc = "err" /\ i = Len(ulog))

----------------------------------------------------------------------------
(* C19  Empty archive is a no-op.  When the unpack run of an archive of    *)
(* zero bytes has ended, no frame that creates a file or a directory was   *)
(* handled and the files and directories are those of a start of the run,  *)
(* the working directory is the one the run started in, and the depth      *)
(* counter has the value unpack was called with.                           *)

EmptyArchiveNoOp ==
    (args = <<>> /\ archive = <<>> /\ pc \in {"done", "err", "crash"}) =>
       /\ \A i \in 1..Len(ulog) : ulog[i].kind \notin {"dir", "file"}
       /\ \E t \in DstTrees : fs = BaseDirs @@ Under(<<DstDir>>, t)
       /\ cwd = <<DstDir>>
       /\ depth = 1

====
